---- MODULE Spec2Model ----
(***************************************************************************)
(* A model of i18n-transform-cli (src/src/index.js): the key generator,    *)
(* the option resolver, the Babel visitors of transform and the exec       *)
(* pipeline.                                                               *)
(*                                                                         *)
(* Text is a sequence of code points (integers), so that the regular       *)
(* expression /[\u4e00-\u9fa5]+/ is the range test it is in the source.   *)
(* A missing value (null / undefined) is the empty tuple <<>> and a        *)
(* present value v is <<v>>.                                               *)
(***************************************************************************)
EXTENDS Integers, Sequences, FiniteSets, Bags, TLC

VARIABLES
    chinese,    \* generateKey: the argument
    keyOut,     \* generateKey: <<>> before the call, <<key>> after it
    options,    \* resolveOptions / exec: the options passed by code
    args,       \* resolveOptions / exec: the minimist result
    resolved,   \* resolveOptions: <<>> before the call, <<ops>> after it
    ast0,       \* transform: the tree the parser produced (kept for reference)
    ast,        \* transform: the tree being mutated, a heap of nodes
    queue,      \* transform: the traversal's pending paths, first is next
    loop,       \* transform: the TemplateLiteral visitor's for-of state
    tpc,        \* transform: position in transform
    result,     \* transform: <<>> for null, <<code>> for the printed code
    pc,         \* exec: position in exec
    writes,     \* exec: the fs.writeFile calls that completed
    logged      \* exec: the errors console.error received

vars == <<chinese, keyOut, options, args, resolved, ast0, ast, queue, loop,
          tpc, result, pc, writes, logged>>

keyVars == <<chinese, keyOut>>
optVars == <<options, args, resolved>>
treeVars == <<ast0, ast, queue, loop, tpc, result>>
execVars == <<pc, writes, logged>>

(***************************************************************************)
(* Bounds of the model.                                                    *)
(***************************************************************************)
MaxHead == 2       \* freely chosen leading characters of a generateKey input
MaxPad == 16       \* repeated trailing characters of a generateKey input
MaxQuasis == 3     \* segments of a template literal

(***************************************************************************)
(* General helpers.                                                        *)
(***************************************************************************)
RECURSIVE Flatten(_)
Flatten(ss) == IF ss = <<>> THEN <<>> ELSE Head(ss) \o Flatten(Tail(ss))

Take(s, n) == SubSeq(s, 1, IF n < Len(s) THEN n ELSE Len(s))

Rep(c, n) == [i \in 1..n |-> c]

SeqsUpTo(S, n) == UNION {[1..k -> S] : k \in 0..n}

Range(s) == {s[i] : i \in DOMAIN s}

(***************************************************************************)
(* const regexp = /[\u4e00-\u9fa5]+/  (line 10)  and  regexp.test(s)       *)
(***************************************************************************)
HanLo == 19968
HanHi == 40869

IsHan(c) == c >= HanLo /\ c <= HanHi

regexpTest(s) == \E i \in DOMAIN s : IsHan(s[i])

(***************************************************************************)
(* pinyin(text, { toneType: 'none', type: 'array' }) of pinyin-pro: one    *)
(* toneless syllable per Chinese character, every other character on its  *)
(* own.  The table holds the characters the model's inputs use:            *)
(*   U+4F60 ni, U+597D hao, U+58EE zhuang, U+524D qian, U+540E hou,        *)
(*   U+7F00 zhui.                                                          *)
(***************************************************************************)
Syllable(c) ==
    CASE c = 20320 -> <<110, 105>>
      [] c = 22909 -> <<104, 97, 111>>
      [] c = 22766 -> <<122, 104, 117, 97, 110, 103>>
      [] c = 21069 -> <<113, 105, 97, 110>>
      [] c = 21518 -> <<104, 111, 117>>
      [] c = 32512 -> <<122, 104, 117, 105>>
      [] OTHER -> <<c>>

pinyin(text) == [i \in DOMAIN text |-> Syllable(text[i])]

(***************************************************************************)
(* generateKey (lines 146-158).                                            *)
(***************************************************************************)
Tier1Min == 16
Tier1Len == 1
Tier2Min == 8
Tier2Len == 2
Tier3Min == 4
Tier3Len == 4

SliceJoin(py, n) == Flatten([i \in DOMAIN py |-> Take(py[i], n)])

\* Faulty variant, for comparison: generateKey with > where the source has >=
generateKeyStrict(text) ==
    LET py == pinyin(text) IN
    IF Len(py) > Tier1Min THEN SliceJoin(py, Tier1Len)
    ELSE IF Len(py) > Tier2Min THEN SliceJoin(py, Tier2Len)
    ELSE IF Len(py) > Tier3Min THEN SliceJoin(py, Tier3Len)
    ELSE Flatten(py)

generateKey(text) ==
    LET py == pinyin(text) IN
    IF Len(py) >= Tier1Min THEN SliceJoin(py, Tier1Len)
    ELSE IF Len(py) >= Tier2Min THEN SliceJoin(py, Tier2Len)
    ELSE IF Len(py) >= Tier3Min THEN SliceJoin(py, Tier3Len)
    ELSE Flatten(py)

(***************************************************************************)
(* The syntax tree.  A tree is a heap: a sequence of nodes, a node's id    *)
(* its index, the root at 1.  A node has a type, a string payload `value`  *)
(* (for a TemplateElement its raw text, with `cooked` <<>> when Babel      *)
(* gives null), and two child lists in Babel's visiting order:             *)
(*   ObjectProperty       a = <<key>>        b = <<value>>                 *)
(*   TemplateLiteral      a = quasis         b = expressions               *)
(*   JSXAttribute         a = <<name>>       b = <<value>> or <<>>         *)
(*   JSXElement           a = attributes     b = children                  *)
(*   CallExpression       a = <<callee>>     b = arguments                 *)
(*   ArrayExpression, ObjectExpression, JSXExpressionContainer, Program:   *)
(*                        b = elements / properties / expression / body    *)
(***************************************************************************)
Node(type, value, a, b) ==
    [type |-> type, value |-> value, cooked |-> <<>>, tail |-> FALSE,
     a |-> a, b |-> b]

Leaf(type, value) == Node(type, value, <<>>, <<>>)

\* babel.types.templateElement({ raw, cooked }, tail)
templateElement(raw, cooked, tail) ==
    [type |-> "TemplateElement", value |-> raw, cooked |-> cooked,
     tail |-> tail, a |-> <<>>, b |-> <<>>]

\* The identifier name i18n as code points.
I18N == <<105, 49, 56, 110>>

\* babel.types.callExpression(babel.types.identifier('i18n'),
\*                            [babel.types.stringLiteral(key)])
\* allocated after `base` nodes; the call is the last of the three.
\* Faulty variant, for comparison: a call that passes the key twice
callExpressionTwoArgs(base, key) ==
    << Leaf("Identifier", I18N),
       Leaf("StringLiteral", key),
       Node("CallExpression", <<>>, <<base + 1>>, <<base + 2, base + 2>>) >>

callExpression(base, key) ==
    << Leaf("Identifier", I18N),
       Leaf("StringLiteral", key),
       Node("CallExpression", <<>>, <<base + 1>>, <<base + 2>>) >>

\* A path of the traversal: the container slot a node hangs in.
Path(parent, field, index) == [parent |-> parent, field |-> field, index |-> index]

NodeIdAt(tree, path) == tree[path.parent][path.field][path.index]

NodeAt(tree, path) == tree[NodeIdAt(tree, path)]

\* The paths of a node's children, in VISITOR_KEYS order.
ChildPaths(tree, id) ==
    [i \in 1..Len(tree[id].a) |-> Path(id, "a", i)]
    \o [i \in 1..Len(tree[id].b) |-> Path(id, "b", i)]

\* Array.prototype.indexOf, 0-based, -1 when absent.
IndexOf(s, x) ==
    IF \E i \in DOMAIN s : s[i] = x
    THEN (CHOOSE i \in DOMAIN s : s[i] = x /\ \A j \in 1..(i - 1) : s[j] # x) - 1
    ELSE 0 - 1

\* Array.prototype.splice(start, deleteCount, ...items), 0-based start.
Splice(s, start, deleteCount, items) ==
    LET len == Len(s)
        from == IF start < 0
                THEN (IF len + start < 0 THEN 0 ELSE len + start)
                ELSE (IF start > len THEN len ELSE start)
        del  == IF deleteCount < 0 THEN 0
                ELSE IF deleteCount > len - from THEN len - from
                ELSE deleteCount
    IN SubSeq(s, 1, from) \o items \o SubSeq(s, from + del + 1, len)

(***************************************************************************)
(* The visitors of babel.traverse (lines 63-127), each as the change it    *)
(* makes to the tree.  `path` is the visited path; new nodes are appended  *)
(* to the heap.                                                            *)
(***************************************************************************)
\* path.replaceWith(n): the slot of `path` now holds the last of `nodes`.
replaceWith(tree, path, nodes) ==
    LET t2 == tree \o nodes
    IN [t2 EXCEPT ![path.parent][path.field][path.index] = Len(t2)]

\* babel.types.jsxExpressionContainer(call) / arrayExpression([call])
wrapped(type, base, key) ==
    callExpression(base, key) \o <<Node(type, <<>>, <<>>, <<base + 3>>)>>

\* StringLiteral: (path) => { ... }   lines 64-73
\* Faulty variant, for comparison: a test for any text at all instead of regexp.test
StringLiteralNonEmpty(node) == Len(node.value) > 0

StringLiteralMatches(node) == regexpTest(node.value)

StringLiteralVisitor(tree, path) ==
    LET node == NodeAt(tree, path)
    IN IF StringLiteralMatches(node)
       THEN replaceWith(tree, path, callExpression(Len(tree), generateKey(node.value)))
       ELSE tree

\* ObjectProperty: (path) => { ... }   lines 74-83
\* Faulty variant, for comparison: a condition that never holds
ObjectPropertyNever(tree, id) == FALSE

ObjectPropertyMatches(tree, id) ==
    /\ tree[tree[id].a[1]].type = "StringLiteral"
    /\ regexpTest(tree[tree[id].a[1]].value)

ObjectPropertyVisitor(tree, path) ==
    LET id == NodeIdAt(tree, path)
        key == tree[tree[id].a[1]]
    IN IF ObjectPropertyMatches(tree, id)
       THEN LET t2 == tree \o wrapped("ArrayExpression", Len(tree), generateKey(key.value))
            IN [t2 EXCEPT ![id].a = <<Len(t2)>>]
       ELSE tree

\* JSXAttribute: (path) => { ... }   lines 105-114
JSXAttributeMatches(tree, id) ==
    /\ tree[id].b # <<>>
    /\ tree[tree[id].b[1]].type = "StringLiteral"
    /\ regexpTest(tree[tree[id].b[1]].value)

JSXAttributeVisitor(tree, path) ==
    LET id == NodeIdAt(tree, path)
    IN IF JSXAttributeMatches(tree, id)
       THEN LET t2 == tree \o wrapped("JSXExpressionContainer", Len(tree),
                                      generateKey(tree[tree[id].b[1]].value))
            IN [t2 EXCEPT ![id].b = <<Len(t2)>>]
       ELSE tree

\* JSXText: (path) => { ... }   lines 115-126
\* Faulty variant, for comparison: a test for any text at all instead of regexp.test
JSXTextNonEmpty(node) == Len(node.value) > 0

JSXTextMatches(node) == regexpTest(node.value)

JSXTextVisitor(tree, path) ==
    LET node == NodeAt(tree, path)
    IN IF JSXTextMatches(node)
       THEN replaceWith(tree, path,
                wrapped("JSXExpressionContainer", Len(tree), generateKey(node.value)))
       ELSE tree

\* node.value.cooked ?? node.value.raw
CookedOrRaw(node) == IF node.cooked # <<>> THEN node.cooked[1] ELSE node.value

\* path.node.quasis.splice(index, 1, templateElement(..), templateElement(..))
\* with the two new elements' ids e1, e2
\* Faulty variant, for comparison: a splice that puts one element in place of the segment
quasisSpliceOne(quasis, index, e1, e2) == Splice(quasis, index, 1, <<e1>>)

quasisSplice(quasis, index, e1, e2) == Splice(quasis, index, 1, <<e1, e2>>)

\* path.node.expressions.splice(index, 0, call)
\* Faulty variant, for comparison: a splice one slot further right
expressionsSpliceAfter(expressions, index, call) ==
    Splice(expressions, index + 1, 0, <<call>>)

\* Faulty variant, for comparison: a splice that deletes a slot (deleteCount 1)
expressionsSpliceReplace(expressions, index, call) ==
    Splice(expressions, index, 1, <<call>>)

expressionsSplice(expressions, index, call) ==
    Splice(expressions, index, 0, <<call>>)

\* One iteration of the for-of of the TemplateLiteral visitor (lines 85-103)
\* over the snapshot element `el` of template `id`.
TemplateLiteralIteration(tree, id, el) ==
    LET node == tree[el]
    IN IF regexpTest(CookedOrRaw(node))
       THEN LET index == IndexOf(tree[id].a, el)
                base == Len(tree)
                isTail == (index = Len(tree[id].a) - 1)
                t2 == tree
                      \o << templateElement(<<>>, <<(<<>>)>>, FALSE),
                            templateElement(<<>>, <<(<<>>)>>, isTail) >>
                      \o callExpression(base + 2, generateKey(CookedOrRaw(node)))
            IN [t2 EXCEPT
                  ![id].a = quasisSplice(tree[id].a, index, base + 1, base + 2),
                  ![id].b = expressionsSplice(tree[id].b, index, base + 5)]
       ELSE tree

(***************************************************************************)
(* transform (lines 53-139) as a process: parse, the traversal, print.     *)
(* The traversal is Babel's: depth first, a node's visitor on entering     *)
(* it, then its children as they are after the visitor ran; a path whose   *)
(* node was replaced with replaceWith is requeued and visited again.  The  *)
(* root itself is not visited.                                             *)
(***************************************************************************)
NoLoop == [node |-> 0, snap |-> <<>>]

\* babel.parseAsync (lines 54-61): a tree, null, or a syntax error thrown.
Parse ==
    /\ tpc = "parse"
    /\ \E outcome \in {"ast", "null", "throw"} :
        \/ /\ outcome = "ast"
           /\ ast' = ast0
           /\ queue' = ChildPaths(ast0, 1)
           /\ tpc' = "traverse"
           /\ UNCHANGED result
        \/ /\ outcome = "null"
           /\ tpc' = "returned"
           /\ result' = <<>>
           /\ UNCHANGED <<ast, queue>>
        \/ /\ outcome = "throw"
           /\ tpc' = "threw"
           /\ UNCHANGED <<ast, queue, result>>
    /\ UNCHANGED <<ast0, loop, keyVars, optVars, execVars>>

Visiting(type) ==
    /\ tpc = "traverse"
    /\ queue # <<>>
    /\ NodeAt(ast, Head(queue)).type = type

\* After a visitor that may have replaced the path's node: requeue the path
\* when it did, else go on to the (unchanged) node's children.
AfterReplace(tree) ==
    IF NodeIdAt(tree, Head(queue)) # NodeIdAt(ast, Head(queue))
    THEN queue
    ELSE ChildPaths(tree, NodeIdAt(tree, Head(queue))) \o Tail(queue)

VisitStringLiteral ==
    /\ Visiting("StringLiteral")
    /\ ast' = StringLiteralVisitor(ast, Head(queue))
    /\ queue' = AfterReplace(ast')
    /\ UNCHANGED <<ast0, loop, tpc, result, keyVars, optVars, execVars>>

VisitObjectProperty ==
    /\ Visiting("ObjectProperty")
    /\ ast' = ObjectPropertyVisitor(ast, Head(queue))
    /\ queue' = ChildPaths(ast', NodeIdAt(ast, Head(queue))) \o Tail(queue)
    /\ UNCHANGED <<ast0, loop, tpc, result, keyVars, optVars, execVars>>

VisitJSXAttribute ==
    /\ Visiting("JSXAttribute")
    /\ ast' = JSXAttributeVisitor(ast, Head(queue))
    /\ queue' = ChildPaths(ast', NodeIdAt(ast, Head(queue))) \o Tail(queue)
    /\ UNCHANGED <<ast0, loop, tpc, result, keyVars, optVars, execVars>>

VisitJSXText ==
    /\ Visiting("JSXText")
    /\ ast' = JSXTextVisitor(ast, Head(queue))
    /\ queue' = AfterReplace(ast')
    /\ UNCHANGED <<ast0, loop, tpc, result, keyVars, optVars, execVars>>

\* TemplateLiteral, line 85: the for-of starts over a copy of quasis.
TemplateLiteralEnter ==
    /\ Visiting("TemplateLiteral")
    /\ loop' = [node |-> NodeIdAt(ast, Head(queue)),
                snap |-> ast[NodeIdAt(ast, Head(queue))].a]
    /\ tpc' = "loop"
    /\ UNCHANGED <<ast0, ast, queue, result, keyVars, optVars, execVars>>

\* TemplateLiteral, lines 86-102: one iteration.
TemplateLiteralNext ==
    /\ tpc = "loop"
    /\ loop.snap # <<>>
    /\ ast' = TemplateLiteralIteration(ast, loop.node, Head(loop.snap))
    /\ loop' = [loop EXCEPT !.snap = Tail(loop.snap)]
    /\ UNCHANGED <<ast0, queue, tpc, result, keyVars, optVars, execVars>>

\* TemplateLiteral, line 103: the loop ends, the traversal goes on to the
\* template's quasis and expressions.
TemplateLiteralExit ==
    /\ tpc = "loop"
    /\ loop.snap = <<>>
    /\ queue' = ChildPaths(ast, loop.node) \o Tail(queue)
    /\ loop' = NoLoop
    /\ tpc' = "traverse"
    /\ UNCHANGED <<ast0, ast, result, keyVars, optVars, execVars>>

Visited == {"StringLiteral", "ObjectProperty", "TemplateLiteral", "JSXAttribute", "JSXText"}

\* A node no visitor is registered for: only its children are traversed.
VisitOther ==
    /\ tpc = "traverse"
    /\ queue # <<>>
    /\ NodeAt(ast, Head(queue)).type \notin Visited
    /\ queue' = ChildPaths(ast, NodeIdAt(ast, Head(queue))) \o Tail(queue)
    /\ UNCHANGED <<ast0, ast, loop, tpc, result, keyVars, optVars, execVars>>

\* babel.transformFromAstAsync (lines 129-138): the printed code, stood for
\* by the tree it prints, null, or an error thrown.
Generate ==
    /\ tpc = "traverse"
    /\ queue = <<>>
    /\ \E outcome \in {"code", "null", "throw"} :
        \/ /\ outcome = "code"
           /\ result' = <<ast>>
           /\ tpc' = "returned"
        \/ /\ outcome = "null"
           /\ result' = <<>>
           /\ tpc' = "returned"
        \/ /\ outcome = "throw"
           /\ tpc' = "threw"
           /\ UNCHANGED result
    /\ UNCHANGED <<ast0, ast, queue, loop, keyVars, optVars, execVars>>

TransformNext ==
    \/ Parse
    \/ VisitStringLiteral
    \/ VisitObjectProperty
    \/ TemplateLiteralEnter
    \/ TemplateLiteralNext
    \/ TemplateLiteralExit
    \/ VisitJSXAttribute
    \/ VisitJSXText
    \/ VisitOther
    \/ Generate

(***************************************************************************)
(* The trees transform is given: one construct of each shape the visitors  *)
(* look at, under a Program root, with payloads from Texts.                *)
(***************************************************************************)
\* "ab", "", and texts with U+4F60 / U+597D at the start, middle and end
Texts ==
    { <<97, 98>>, <<>>, <<20320, 22909>>, <<97, 20320, 98>>,
      <<20320, 97>>, <<97, 20320>> }

\* { raw, cooked } of a template element: equal (among them the prefix
\* U+524D U+7F00 and the suffix U+540E U+7F00), cooked from an escape in raw,
\* and cooked null (an invalid escape in a tagged template)
Prefix == <<21069, 32512>>
Suffix == <<21518, 32512>>

QuasiValues ==
    { [raw |-> <<97, 98>>, cooked |-> << <<97, 98>> >>],
      [raw |-> <<>>, cooked |-> << <<>> >>],
      [raw |-> Prefix, cooked |-> <<Prefix>>],
      [raw |-> Suffix, cooked |-> <<Suffix>>],
      [raw |-> <<92, 117, 52, 102, 54, 48>>, cooked |-> << <<20320>> >>],
      [raw |-> <<92, 117, 21518>>, cooked |-> <<>>] }

Program(body) == Node("Program", <<>>, <<>>, body)

Ident(i) == Leaf("Identifier", <<120, 48 + i>>)

LiteralTree(t) == << Program(<<2>>), Leaf("StringLiteral", t) >>

PropertyTree(key, value) ==
    << Program(<<2>>),
       Node("ObjectExpression", <<>>, <<>>, <<3>>),
       Node("ObjectProperty", <<>>, <<4>>, <<5>>),
       key, value >>

\* quasis qs (n of them) and n - 1 expressions: identifiers, the first one
\* a string literal `lit` when lit is given
TemplateTree(qs, lit) ==
    LET n == Len(qs)
    IN << Program(<<2>>),
          Node("TemplateLiteral", <<>>, [i \in 1..n |-> 2 + i],
               [i \in 1..(n - 1) |-> 2 + n + i]) >>
       \o [i \in 1..n |-> templateElement(qs[i].raw, qs[i].cooked, i = n)]
       \o [i \in 1..(n - 1) |->
             IF i = 1 /\ lit # <<>> THEN Leaf("StringLiteral", lit[1]) ELSE Ident(i)]

\* <e name=value>text</e>: value absent, a string, or {string}
JSXTree(kind, t1, t2) ==
    LET name == Leaf("JSXIdentifier", <<110>>)
        text == Leaf("JSXText", t2)
    IN CASE kind = "none" ->
              << Program(<<2>>), Node("JSXElement", <<>>, <<3>>, <<5>>),
                 Node("JSXAttribute", <<>>, <<4>>, <<>>), name, text >>
         [] kind = "string" ->
              << Program(<<2>>), Node("JSXElement", <<>>, <<3>>, <<6>>),
                 Node("JSXAttribute", <<>>, <<4>>, <<5>>), name,
                 Leaf("StringLiteral", t1), text >>
         [] kind = "container" ->
              << Program(<<2>>), Node("JSXElement", <<>>, <<3>>, <<7>>),
                 Node("JSXAttribute", <<>>, <<4>>, <<5>>), name,
                 Node("JSXExpressionContainer", <<>>, <<>>, <<6>>),
                 Leaf("StringLiteral", t1), text >>

Trees ==
    {LiteralTree(t) : t \in Texts}
    \cup {PropertyTree(k, v) :
            k \in {Leaf("StringLiteral", t) : t \in Texts} \cup {Leaf("Identifier", <<107>>)},
            v \in {Leaf("StringLiteral", t) : t \in Texts} \cup {Leaf("NumericLiteral", <<49>>)}}
    \cup {TemplateTree(qs, lit) :
            qs \in SeqsUpTo(QuasiValues, MaxQuasis) \ {<<>>},
            lit \in {<<>>, << <<97>> >>, << <<22909>> >>}}
    \cup {JSXTree(kind, t1, t2) :
            kind \in {"none", "string", "container"}, t1 \in Texts, t2 \in Texts}

IdleKey == chinese = <<>> /\ keyOut = <<>>

IdleOpt == options = <<>> /\ args = <<>> /\ resolved = <<>>

IdleExec == pc = "idle" /\ writes = <<>> /\ logged = <<>>

TransformInit ==
    /\ ast0 \in Trees
    /\ ast = <<>>
    /\ queue = <<>>
    /\ loop = NoLoop
    /\ tpc = "parse"
    /\ result = <<>>
    /\ IdleKey /\ IdleOpt /\ IdleExec

SpecTransform == TransformInit /\ [][TransformNext]_vars

SpecTransformFair == SpecTransform /\ WF_vars(TransformNext)

(***************************************************************************)
(* Vocabulary of the properties of transform.                              *)
(***************************************************************************)
RECURSIVE ReachFrom(_, _, _)
ReachFrom(tree, seen, frontier) ==
    IF frontier = {} THEN seen
    ELSE LET next == UNION {Range(tree[i].a) \cup Range(tree[i].b) : i \in frontier}
         IN ReachFrom(tree, seen \cup frontier, next \ (seen \cup frontier))

\* the ids of the nodes in the tree (what replaceWith detached is not)
Reach(tree) == IF tree = <<>> THEN {} ELSE ReachFrom(tree, {}, {1})

\* the payload of a node of one of the five shapes
Payload(node) ==
    IF node.type = "TemplateElement" /\ node.cooked # <<>> THEN node.cooked[1]
    ELSE node.value

TextShapes == {"StringLiteral", "TemplateElement", "JSXText"}

ContainsHan(text) == \E i \in DOMAIN text : text[i] >= 19968 /\ text[i] <= 40869

\* an input node that carries a payload with a target-script character
Matching(id) ==
    /\ id \in Reach(ast0)
    /\ ast0[id].type \in TextShapes
    /\ ContainsHan(Payload(ast0[id]))

NonMatching(id) ==
    /\ id \in Reach(ast0)
    /\ ast0[id].type \in TextShapes
    /\ ~ContainsHan(Payload(ast0[id]))

\* transform returned code, `ast` is the tree that was printed
Transformed == tpc = "returned" /\ result # <<>>

\* tree[id] is i18n(<string literal key>)
IsI18nCall(tree, id, key) ==
    /\ tree[id].type = "CallExpression"
    /\ Len(tree[id].a) = 1
    /\ tree[tree[id].a[1]] = Leaf("Identifier", I18N)
    /\ Len(tree[id].b) = 1
    /\ tree[tree[id].b[1]] = Leaf("StringLiteral", key)

\* tree[id] is a node of `type` whose only child is i18n(key)
IsWrappedCall(tree, id, type, key) ==
    /\ tree[id].type = type
    /\ tree[id].a = <<>>
    /\ Len(tree[id].b) = 1
    /\ IsI18nCall(tree, tree[id].b[1], key)

Templates == {t \in Reach(ast0) : ast0[t].type = "TemplateLiteral"}

\* the number k of matching segments of input template t
MatchingSegments(t) ==
    Cardinality({i \in DOMAIN ast0[t].a : Matching(ast0[t].a[i])})

\* C2, as stated: with k matching segments the segment count grows by 2k
\* and the slot count by k.
C2_AsStated ==
    Transformed =>
        \A t \in Templates :
            /\ Len(ast[t].a) = Len(ast0[t].a) + 2 * MatchingSegments(t)
            /\ Len(ast[t].b) = Len(ast0[t].b) + MatchingSegments(t)

\* C2, amended: with k matching segments, after transform the segment count
\* is the original segment count + k and the slot count is the original slot
\* count + k.
C2_SegmentsGrowByK ==
    Transformed =>
        \A t \in Templates :
            /\ Len(ast[t].a) = Len(ast0[t].a) + MatchingSegments(t)
            /\ Len(ast[t].b) = Len(ast0[t].b) + MatchingSegments(t)

C2_Witness ==
    /\ Transformed
    /\ \E t \in Templates : MatchingSegments(t) >= 2 /\ Len(ast[t].a) = Len(ast0[t].a) + 2

\* C3: every template literal of the tree has one segment more than it has
\* expression slots, in the tree as parsed and after each iteration of the
\* TemplateLiteral visitor's loop, whichever segments match.
C3_SegmentsOneMoreThanSlots ==
    \A id \in DOMAIN ast :
        ast[id].type = "TemplateLiteral" => Len(ast[id].a) = Len(ast[id].b) + 1

\* the loop has just handled the last of three segments, all matching
C3_Witness ==
    /\ tpc = "loop"
    /\ loop.snap = <<>>
    /\ Len(ast0[loop.node].a) = 3
    /\ MatchingSegments(loop.node) = 3
    /\ Len(ast[loop.node].a) = 6

\* what an expression slot holds: an input node, or an inserted call's key
SlotOf(tree, id) ==
    IF id \in DOMAIN ast0 THEN [orig |-> id, key |-> <<>>]
    ELSE IF tree[id].type = "CallExpression" /\ tree[id].b # <<>>
    THEN [orig |-> 0, key |-> tree[tree[id].b[1]].value]
    ELSE [orig |-> 0 - 1, key |-> <<>>]

CallSlot(text) == [orig |-> 0, key |-> generateKey(text)]

\* the slots of input template t read left to right: before original
\* expression i the call for segment i when it matches, the expression
\* itself (the call that replaced it when it is a matching string literal)
ExpectedSlots(t) ==
    LET n == Len(ast0[t].a)
        seg(i) == ast0[t].a[i]
        exp(i) == ast0[t].b[i]
    IN Flatten([i \in 1..n |->
          (IF Matching(seg(i)) THEN <<CallSlot(Payload(ast0[seg(i)]))>> ELSE <<>>)
          \o (IF i = n THEN <<>>
              ELSE IF Matching(exp(i)) THEN <<CallSlot(Payload(ast0[exp(i)]))>>
              ELSE <<[orig |-> exp(i), key |-> <<>>]>>)])

ActualSlots(t) == [j \in DOMAIN ast[t].b |-> SlotOf(ast, ast[t].b[j])]

\* C4: after transform the expression slots of a template literal hold the
\* original expressions in their original order, with the i18n call made for
\* original segment i after original expressions 0..i-1 and before
\* original expressions i..
C4_SlotsInTextualOrder ==
    Transformed => \A t \in Templates : ActualSlots(t) = ExpectedSlots(t)

\* the template `prefix${x}suffix` of the spec: prefix-key, x, suffix-key
C4_Witness ==
    /\ Transformed
    /\ ast0 = TemplateTree(<< [raw |-> Prefix, cooked |-> <<Prefix>>],
                              [raw |-> Suffix, cooked |-> <<Suffix>>] >>, <<>>)
    /\ ActualSlots(2) =
         << [orig |-> 0, key |-> <<113, 105, 97, 110, 122, 104, 117, 105>>],
            [orig |-> 5, key |-> <<>>],
            [orig |-> 0, key |-> <<104, 111, 117, 122, 104, 117, 105>>] >>

\* the container slots a node hangs in
ParentSlots(tree, id) ==
    {ps \in Reach(tree) \X {"a", "b"} : id \in Range(tree[ps[1]][ps[2]])}

\* C5: a node of the five shapes whose payload has no target-script
\* character stays the node it was, where it was; a tree without any
\* matching payload is not changed at all.
C5_NoMatchFrame ==
    ast # <<>> =>
        /\ \A id \in DOMAIN ast0 :
              NonMatching(id) =>
                  /\ ast[id] = ast0[id]
                  /\ ParentSlots(ast, id) = ParentSlots(ast0, id)
        /\ (\A id \in DOMAIN ast0 : ~Matching(id)) => ast = ast0

\* a JSX text without a match next to an attribute that was rewritten
C5_Witness ==
    /\ Transformed
    /\ ast # ast0
    /\ \E id \in DOMAIN ast0 :
          /\ ast0[id].type = "JSXText"
          /\ NonMatching(id)
          /\ ast0[id].value # <<>>
          /\ ast[2].b = <<id>>

Inserted(id) == id \notin DOMAIN ast0

\* the keys of the calls the rules put into input template t, in order
ExpectedKeys(t) ==
    LET n == Len(ast0[t].a)
    IN Flatten([i \in 1..n |->
          (IF Matching(ast0[t].a[i])
           THEN <<generateKey(Payload(ast0[ast0[t].a[i]]))>> ELSE <<>>)
          \o (IF i < n /\ Matching(ast0[t].b[i])
              THEN <<generateKey(Payload(ast0[ast0[t].b[i]]))>> ELSE <<>>)])

\* what the slot <<p, f, i>> of a matching input node c holds in the end
ReplacedInSlot(p, f, i) ==
    LET c == ast0[p][f][i]
        n == ast[p][f][i]
        key == generateKey(Payload(ast0[c]))
    IN CASE ast0[p].type = "ObjectProperty" /\ f = "a" ->
              IsWrappedCall(ast, n, "ArrayExpression", key)
         [] ast0[p].type = "JSXAttribute" /\ f = "b" ->
              IsWrappedCall(ast, n, "JSXExpressionContainer", key)
         [] ast0[c].type = "JSXText" ->
              IsWrappedCall(ast, n, "JSXExpressionContainer", key)
         [] OTHER -> IsI18nCall(ast, n, key)

\* C6: every matching payload is replaced by i18n(<one string literal>),
\* the literal being generateKey of the whole payload, for all five shapes.
C6_FullValueReplacement ==
    Transformed =>
        /\ \A p \in Reach(ast0) :
              ast0[p].type # "TemplateLiteral" =>
                  \A f \in {"a", "b"} :
                      /\ Len(ast[p][f]) = Len(ast0[p][f])
                      /\ \A i \in DOMAIN ast0[p][f] :
                            Matching(ast0[p][f][i]) => ReplacedInSlot(p, f, i)
        /\ \A t \in Templates :
              LET ins == SelectSeq(ast[t].b, Inserted)
              IN /\ Len(ins) = Len(ExpectedKeys(t))
                 /\ \A j \in DOMAIN ins : IsI18nCall(ast, ins[j], ExpectedKeys(t)[j])

\* "a<U+4F60>b", a match in the middle: the key is "anib"
C6_Witness ==
    /\ Transformed
    /\ ast0 = LiteralTree(<<97, 20320, 98>>)
    /\ IsI18nCall(ast, ast[1].b[1], <<97, 110, 105, 98>>)

\* C9: a matching string literal that is an object property's key or a JSX
\* attribute's value is never replaced by a bare i18n call; it ends wrapped
\* (in the array structure, in an expression container), and the property
\* rule leaves the property's value alone.
C9_PositionRulesWin ==
    ast # <<>> =>
        \A p \in Reach(ast0) :
            /\ (ast0[p].type = "ObjectProperty" /\ Matching(ast0[p].a[1])) =>
                  /\ ast[ast[p].a[1]].type # "CallExpression"
                  /\ Transformed => ReplacedInSlot(p, "a", 1)
                  /\ ~Matching(ast0[p].b[1]) => ast[p].b = ast0[p].b
            /\ (ast0[p].type = "JSXAttribute" /\ ast0[p].b # <<>>
                    /\ Matching(ast0[p].b[1])) =>
                  /\ ast[ast[p].b[1]].type # "CallExpression"
                  /\ Transformed => ReplacedInSlot(p, "b", 1)

\* { "<U+4F60><U+597D>": 1 }: the key wrapped, the value 1 the node it was
C9_Witness ==
    /\ Transformed
    /\ ast0 = PropertyTree(Leaf("StringLiteral", <<20320, 22909>>),
                           Leaf("NumericLiteral", <<49>>))
    /\ IsWrappedCall(ast, ast[3].a[1], "ArrayExpression", <<110, 105, 104, 97, 111>>)
    /\ ast[3].b = <<5>>
    /\ ast[5] = Leaf("NumericLiteral", <<49>>)

Calls(tree) == {id \in Reach(tree) : tree[id].type = "CallExpression"}

\* every call in the heap is i18n(<string literal without a match>)
CallsIntact ==
    \A id \in DOMAIN ast :
        ast[id].type = "CallExpression" =>
            /\ Len(ast[id].b) = 1
            /\ ast[ast[id].b[1]].type = "StringLiteral"
            /\ ~ContainsHan(ast[ast[id].b[1]].value)
            /\ id \in Reach(ast)

C10_OneCallPerMatch ==
    /\ CallsIntact
    /\ Transformed =>
          Cardinality(Calls(ast)) = Cardinality({id \in DOMAIN ast0 : Matching(id)})

\* C10: the traversal ends, with exactly one i18n call per matching payload
\* of the input; the nodes a rule inserted are never rewritten again.
C10_OneCallPerMatchAndEnds ==
    []C10_OneCallPerMatch /\ <>(tpc \in {"returned", "threw"})

\* the traversal is at the key literal of a call it inserted, and three
\* matching payloads have become three calls by now
C10_Witness ==
    /\ tpc = "traverse"
    /\ queue # <<>>
    /\ Inserted(Head(queue).parent)
    /\ NodeAt(ast, Head(queue)).type = "StringLiteral"
    /\ Cardinality({id \in DOMAIN ast0 : Matching(id)}) = 3
    /\ Cardinality(Calls(ast)) = 3

(***************************************************************************)
(* generateKey called on its own (it is exported).  The inputs: up to      *)
(* MaxHead freely chosen characters followed by up to MaxPad repetitions   *)
(* of one character, over U+4F60 (ni), U+58EE (zhuang) and "a".            *)
(***************************************************************************)
KeyAlphabet == {20320, 22766, 97}

KeyInputs ==
    {h \o Rep(c, n) : h \in SeqsUpTo(KeyAlphabet, MaxHead), c \in KeyAlphabet, n \in 0..MaxPad}

IdleTransform ==
    /\ ast0 = <<>> /\ ast = <<>> /\ queue = <<>> /\ loop = NoLoop
    /\ tpc = "idle" /\ result = <<>>

KeyInit ==
    /\ chinese \in KeyInputs
    /\ keyOut = <<>>
    /\ IdleOpt /\ IdleTransform /\ IdleExec

CallGenerateKey ==
    /\ keyOut = <<>>
    /\ keyOut' = <<generateKey(chinese)>>
    /\ UNCHANGED <<chinese, optVars, treeVars, execVars>>

KeyNext == CallGenerateKey

SpecKey == KeyInit /\ [][KeyNext]_vars

\* the first L characters of every syllable, joined
CutJoin(py, L) ==
    Flatten([i \in DOMAIN py |-> SubSeq(py[i], 1, IF Len(py[i]) < L THEN Len(py[i]) ELSE L)])

\* C1: with n syllables the key is the syllables cut to L characters and
\* joined without separator: L = 1 for n >= 16, 2 for 8..15, 4 for 4..7, the
\* whole syllable for n <= 3; the empty text gives the empty key.
C1_TierSelection ==
    keyOut # <<>> =>
        LET py == pinyin(chinese)
            n == Len(py)
        IN /\ n >= 16 => keyOut[1] = CutJoin(py, 1)
           /\ (n >= 8 /\ n <= 15) => keyOut[1] = CutJoin(py, 2)
           /\ (n >= 4 /\ n <= 7) => keyOut[1] = CutJoin(py, 4)
           /\ n <= 3 => keyOut[1] = Flatten(py)
           /\ n = 0 => keyOut[1] = <<>>

\* sixteen times zhuang: the key is sixteen times "z"
C1_Witness ==
    /\ chinese = Rep(22766, 16)
    /\ keyOut = <<Rep(122, 16)>>

(***************************************************************************)
(* node:path (posix), on texts: isAbsolute, resolve, parse.                *)
(***************************************************************************)
isAbsolute(p) == Len(p) > 0 /\ p[1] = 47

\* the pieces of p between slashes
RECURSIVE SplitPath(_)
SplitPath(p) ==
    IF \A i \in DOMAIN p : p[i] # 47 THEN <<p>>
    ELSE LET i == CHOOSE k \in DOMAIN p : p[k] = 47 /\ \A j \in 1..(k - 1) : p[j] # 47
         IN <<SubSeq(p, 1, i - 1)>> \o SplitPath(SubSeq(p, i + 1, Len(p)))

\* "" and "." dropped, ".." steps up (and stays at the root)
RECURSIVE NormalizeSegments(_, _)
NormalizeSegments(segs, acc) ==
    IF segs = <<>> THEN acc
    ELSE LET seg == Head(segs)
         IN IF seg = <<>> \/ seg = <<46>> THEN NormalizeSegments(Tail(segs), acc)
            ELSE IF seg = <<46, 46>>
            THEN NormalizeSegments(Tail(segs),
                    IF acc = <<>> THEN acc ELSE SubSeq(acc, 1, Len(acc) - 1))
            ELSE NormalizeSegments(Tail(segs), Append(acc, seg))

NormalizeAbsolute(p) ==
    LET segs == NormalizeSegments(SplitPath(p), <<>>)
    IN IF segs = <<>> THEN <<47>>
       ELSE Flatten([i \in DOMAIN segs |-> <<47>> \o segs[i]])

\* process.cwd(), line 167: "/w/p"
cwd == <<47, 119, 47, 112>>

\* path.resolve(from, to)
resolve(from, to) ==
    IF isAbsolute(to) THEN NormalizeAbsolute(to)
    ELSE IF isAbsolute(from) THEN NormalizeAbsolute(from \o <<47>> \o to)
    ELSE NormalizeAbsolute(cwd \o <<47>> \o from \o <<47>> \o to)

RECURSIVE StripTrailingSlashes(_)
StripTrailingSlashes(p) ==
    IF Len(p) > 1 /\ p[Len(p)] = 47 THEN StripTrailingSlashes(SubSeq(p, 1, Len(p) - 1))
    ELSE p

LastIndexOf(s, c) ==
    IF \E i \in DOMAIN s : s[i] = c
    THEN CHOOSE i \in DOMAIN s : s[i] = c /\ \A j \in (i + 1)..Len(s) : s[j] # c
    ELSE 0

\* path.parse(p): dir, name and ext (ext from the last dot of the base name,
\* none for a leading dot)
parse(p) ==
    LET q == StripTrailingSlashes(p)
        slash == LastIndexOf(q, 47)
        dir == IF slash = 0 THEN <<>>
               ELSE IF slash = 1 THEN <<47>>
               ELSE SubSeq(q, 1, slash - 1)
        base == IF q = <<47>> THEN <<>> ELSE SubSeq(q, slash + 1, Len(q))
        dot == LastIndexOf(base, 46)
        ext == IF dot <= 1 \/ base = <<46, 46>> THEN <<>>
               ELSE SubSeq(base, dot, Len(base))
    IN [dir |-> dir, name |-> SubSeq(base, 1, Len(base) - Len(ext)), ext |-> ext]

(***************************************************************************)
(* resolveOptions (lines 166-185).  options = [input, output], args =      *)
(* [input, i, output, o, pos] with pos the positional arguments args._ ;   *)
(* each value <<>> when absent, <<text>> when given.                       *)
(***************************************************************************)
\* a ?? b
Coalesce(a, b) == IF a # <<>> THEN a ELSE b

\* Array.prototype.at(k) for k >= 0
at(s, k) == IF k + 1 \in DOMAIN s THEN <<s[k + 1]>> ELSE <<>>

\* 'index.js'
IndexJs == <<105, 110, 100, 101, 120, 46, 106, 115>>

\* '.cache'
DotCache == <<46, 99, 97, 99, 104, 101>>

\* lines 177-178: path.resolve(ip.dir, `${ip.name}.cache${ip.ext}`)
defaultOutput(input) ==
    LET ip == parse(input)
    IN resolve(ip.dir, ip.name \o DotCache \o ip.ext)

\* line 170
\* Faulty variant, for comparison: -i taking precedence over --input
pickInputShortFirst(opts, argv) ==
    Coalesce(argv.i, Coalesce(argv.input, Coalesce(at(argv.pos, 0),
        Coalesce(opts.input, <<IndexJs>>))))

pickInput(opts, argv) ==
    Coalesce(argv.input, Coalesce(argv.i, Coalesce(at(argv.pos, 0),
        Coalesce(opts.input, <<IndexJs>>))))

\* line 171
pickOutput(opts, argv) ==
    Coalesce(argv.output, Coalesce(argv.o, Coalesce(at(argv.pos, 1),
        Coalesce(opts.output, <<>>))))

resolveOptions(opts, argv) ==
    LET input1 == pickInput(opts, argv)[1]
        output1 == pickOutput(opts, argv)
        input2 == IF ~isAbsolute(input1) THEN resolve(cwd, input1) ELSE input1
        output2 == IF output1 = <<>> THEN defaultOutput(input2) ELSE output1[1]
        output3 == IF ~isAbsolute(output2) THEN resolve(cwd, output2) ELSE output2
    IN [input |-> input2, output |-> output3]

(***************************************************************************)
(* resolveOptions called on its own (it is exported).                      *)
(***************************************************************************)
Opt(S) == {<<>>} \cup {<<t>> : t \in S}

\* a.js  /r/b.ts  |  c.js  |  d/e.js  o1  |  ../f  .x
\* /r/out.js  g.js  |  h.js  ""  |  k.js
OptionsSet ==
    [input : Opt({<<46, 46, 47, 102>>, <<46, 120>>}), output : Opt({<<107, 46, 106, 115>>})]

ArgsSet ==
    [input : Opt({<<97, 46, 106, 115>>, <<47, 114, 47, 98, 46, 116, 115>>}),
     i : Opt({<<99, 46, 106, 115>>}),
     output : Opt({<<47, 114, 47, 111, 117, 116, 46, 106, 115>>, <<103, 46, 106, 115>>}),
     o : Opt({<<104, 46, 106, 115>>, <<>>}),
     pos : {<<>>, <<<<100, 47, 101, 46, 106, 115>>>>, <<<<100, 47, 101, 46, 106, 115>>, <<111, 49>>>>}]

OptInit ==
    /\ options \in OptionsSet
    /\ args \in ArgsSet
    /\ resolved = <<>>
    /\ IdleKey /\ IdleTransform /\ IdleExec

CallResolveOptions ==
    /\ resolved = <<>>
    /\ resolved' = <<resolveOptions(options, args)>>
    /\ UNCHANGED <<options, args, keyVars, treeVars, execVars>>

OptNext == CallResolveOptions

SpecOpt == OptInit /\ [][OptNext]_vars

\* p made absolute against the working directory "/w/p", as claimed
Absolute(p) == IF Len(p) > 0 /\ p[1] = 47 THEN p ELSE resolve(<<47, 119, 47, 112>>, p)

ExecStart ==
    /\ pc = "start"
    /\ resolved' = <<resolveOptions(options, args)>>
    /\ pc' = "read"
    /\ UNCHANGED <<options, args, writes, logged, keyVars, treeVars>>

\* lines 29-34: the read completes and transform is called, or it fails
ExecReadFile ==
    /\ pc = "read"
    /\ \E ok \in BOOLEAN :
        IF ok
        THEN /\ pc' = "transform"
             /\ tpc' = "parse"
             /\ UNCHANGED logged
        ELSE /\ pc' = "done"
             /\ logged' = Append(logged, "readFile")
             /\ UNCHANGED tpc
    /\ UNCHANGED <<writes, ast0, ast, queue, loop, result, keyVars, optVars>>

\* Faulty variant, for comparison: lines 34-42 without the check of line 36
ExecAfterTransformUnchecked ==
    /\ pc = "transform"
    /\ tpc = "returned"
    /\ pc' = "write"
    /\ UNCHANGED <<writes, logged, keyVars, optVars, treeVars>>

\* lines 34-42: transform returned; null ends exec, code is handed to
\* fs.writeFile
ExecAfterTransform ==
    /\ pc = "transform"
    /\ tpc = "returned"
    /\ pc' = IF result = <<>> THEN "done" ELSE "write"
    /\ UNCHANGED <<writes, logged, keyVars, optVars, treeVars>>

\* lines 43-45: transform threw
ExecCatch ==
    /\ pc = "transform"
    /\ tpc = "threw"
    /\ pc' = "done"
    /\ logged' = Append(logged, "transform")
    /\ UNCHANGED <<writes, keyVars, optVars, treeVars>>

\* lines 40-45: the write completes or fails
ExecWriteFile ==
    /\ pc = "write"
    /\ \E ok \in BOOLEAN :
        /\ writes' = Append(writes, [file |-> resolved[1].output, data |-> result, ok |-> ok])
        /\ logged' = IF ok THEN logged ELSE Append(logged, "writeFile")
    /\ pc' = "done"
    /\ UNCHANGED <<keyVars, optVars, treeVars>>

ExecNext ==
    \/ ExecStart
    \/ ExecReadFile
    \/ TransformNext
    \/ ExecAfterTransform
    \/ ExecCatch
    \/ ExecWriteFile

\* one file of each shape, two ways of passing the paths
ExecTrees ==
    { LiteralTree(<<20320, 22909>>),
      LiteralTree(<<97, 98>>),
      PropertyTree(Leaf("StringLiteral", <<20320, 22909>>), Leaf("NumericLiteral", <<49>>)),
      TemplateTree(<< [raw |-> Prefix, cooked |-> <<Prefix>>],
                      [raw |-> Suffix, cooked |-> <<Suffix>>] >>, <<>>),
      JSXTree("string", <<20320, 97>>, <<97, 20320>>) }

ExecInit ==
    /\ options \in {o \in OptionsSet : o.input = <<>>}
    /\ args \in {a \in ArgsSet : a.i = <<>> /\ a.o = <<>> /\ a.output = <<>> /\ Len(a.pos) # 1}
    /\ resolved = <<>>
    /\ ast0 \in ExecTrees
    /\ ast = <<>> /\ queue = <<>> /\ loop = NoLoop /\ tpc = "idle" /\ result = <<>>
    /\ pc = "start" /\ writes = <<>> /\ logged = <<>>
    /\ IdleKey

SpecExec == ExecInit /\ [][ExecNext]_vars

\* C7: exec writes at most once, and only the non-null result of transform
\* after the read succeeded; after a failed read, a failed parse or a null
\* result nothing is written, the error is caught and exec ends.
C7_WriteOnlyAfterSuccess ==
    /\ Len(writes) <= 1
    /\ writes # <<>> =>
          /\ tpc = "returned"
          /\ result # <<>>
          /\ ~(\E i \in DOMAIN logged : logged[i] = "readFile")
          /\ writes[1].data = result
          /\ writes[1].file = resolved[1].output
    /\ pc = "write" => (tpc = "returned" /\ result # <<>>)
    /\ ((\E i \in DOMAIN logged : logged[i] \in {"readFile", "transform"})
           \/ tpc = "threw" \/ (tpc = "returned" /\ result = <<>>)) => writes = <<>>
    /\ tpc = "threw" => pc \in {"transform", "done"}
    /\ (pc = "done" /\ tpc = "threw") => logged = <<"transform">>
    /\ (pc = "done" /\ tpc = "idle") => logged = <<"readFile">>

\* exec ended after transform returned code: one completed write of that
\* code to the resolved output path
C7_Witness ==
    /\ pc = "done"
    /\ tpc = "returned"
    /\ ast # ast0
    /\ writes = <<[file |-> resolved[1].output, data |-> <<ast>>, ok |-> TRUE]>>
    /\ logged = <<>>

====
